---- MODULE Spec2Model ----
(***************************************************************************)
(* Model of crates/ruma-macros/src/api.rs: the `ruma_api!` front end.      *)
(*                                                                         *)
(*   - Api::parse             the section parser (a pure function of the   *)
(*                            token stream), as the operator ApiParse;     *)
(*   - Api::expand_all        the orchestrator, as the operator ExpandAll; *)
(*   - ensure_feature_presence  the process-wide memoized capability check *)
(*                            (a once_cell Lazy), as a set of threads that *)
(*                            force the cell while the manifest is edited. *)
(*                                                                         *)
(* The specifications share the variables: SpecApi runs parse and          *)
(* expand_all over every bounded token stream, SpecCap (SpecCapFair with   *)
(* a fair scheduler) runs concurrent callers of ensure_feature_presence,   *)
(* SpecMeta runs the part of expand_all that builds the METADATA constant  *)
(* over a set of Metadata values.                                          *)
(***************************************************************************)
EXTENDS Integers, Sequences, FiniteSets, TLC

VARIABLES
    input,      \* the token stream handed to Api::parse
    phase,      \* "input" | "parsed" | "expanded": position of one macro invocation
    parsed,     \* the syn::Result<Api> of Api::parse (and the cursor it stopped at)
    output,     \* the TokenStream of expand_all, as a sequence of parts
    meta,       \* the Metadata of an Api whose METADATA constant is being built
    descriptor, \* the METADATA constant expand_all emits for meta
    env,        \* CARGO_MANIFEST_DIR and the Cargo.toml it points at
    RESULT,     \* the static Lazy<Result<(), syn::Error>>
    pc,         \* per caller: position inside ensure_feature_presence
    local,      \* per caller: manifest_bytes held by the initialiser
    got,        \* per caller: the result ensure_feature_presence returned to it
    initCount,  \* number of times the initialiser closure has been entered
    edits       \* number of manifest / environment edits so far

vars == <<input, phase, parsed, output, meta, descriptor,
          env, RESULT, pc, local, got, initCount, edits>>

metaVars == <<meta, descriptor>>
apiVars == <<input, phase, parsed, output, metaVars>>
capVars == <<env, RESULT, pc, local, got, initCount, edits>>

(***************************************************************************)
(* Bounds.                                                                 *)
(***************************************************************************)
MaxLen == 5         \* longest token stream
MaxThreads == 3     \* endpoint compilations in one process, each on its own thread
MaxEdits == 1       \* manifest / environment edits during the process

(***************************************************************************)
(* Option<T> as a sequence of length 0 or 1.                               *)
(***************************************************************************)
None == <<>>
Some(v) == <<v>>
IsSome(o) == Len(o) = 1
IsNone(o) == Len(o) = 0

(***************************************************************************)
(* Tokens.  One token stands for one syntactic unit the parser consumes    *)
(* whole; an attribute or a section is identified by its position in the   *)
(* stream (its span).                                                      *)
(*   md        `metadata: { ... }` with every mandatory field              *)
(*   attr      an outer attribute `#[...]`                                 *)
(*   badattr   `#` not followed by a well-formed `[...]`                   *)
(*   request   `request: { fields }`                                       *)
(*   badreq    the `request` keyword followed by a malformed section       *)
(*   response  `response: { fields }`                                      *)
(*   badresp   the `response` keyword followed by a malformed section      *)
(*   errorT1   `error: T1`                                                 *)
(*   baderr    the `error` keyword followed by something that is no type   *)
(*   junk      any other token                                             *)
(***************************************************************************)
Tokens == {"md", "attr", "badattr", "request", "badreq", "response", "badresp",
           "errorT1", "baderr", "junk"}

Inputs == UNION {[1..n -> Tokens] : n \in 0..MaxLen}

Peek(in, pos) == IF pos <= Len(in) THEN in[pos] ELSE "eof"

\* input.peek(kw::request), input.peek(kw::response), input.peek(kw::error)
PeekRequest(in, pos) == Peek(in, pos) \in {"request", "badreq"}
PeekResponse(in, pos) == Peek(in, pos) \in {"response", "badresp"}
PeekError(in, pos) == Peek(in, pos) \in {"errorT1", "baderr"}

\* The type written in an error section.
ErrorTypeOf(tok) == IF tok = "errorT1" THEN "T1" ELSE "?"

\* The messages of the errors Api::parse can return.
AttributesWithoutResponse == "attributes are not supported on the error type"
SyntaxError == "syntax error"

Err(msg, span) == [ok |-> FALSE, err |-> msg, span |-> span, api |-> None, rest |-> span]
Ok(api, rest) == [ok |-> TRUE, err |-> "", span |-> 0, api |-> Some(api), rest |-> rest]

(***************************************************************************)
(* input.parse::<Metadata>(): consumes the metadata section or fails.      *)
(***************************************************************************)
ParseMetadata(in, pos) ==
    IF Peek(in, pos) = "md"
    THEN [ok |-> TRUE, metadata |-> pos, pos |-> pos + 1]
    ELSE [ok |-> FALSE, metadata |-> 0, pos |-> pos]

(***************************************************************************)
(* input.call(Attribute::parse_outer): collects the run of outer           *)
(* attributes at the cursor (possibly empty); a malformed one fails.       *)
(***************************************************************************)
RECURSIVE ParseOuter(_, _)
ParseOuter(in, pos) ==
    IF Peek(in, pos) = "attr"
    THEN LET r == ParseOuter(in, pos + 1)
         IN  IF r.ok
             THEN [ok |-> TRUE, attrs |-> <<pos>> \o r.attrs, pos |-> r.pos]
             ELSE r
    ELSE IF Peek(in, pos) = "badattr"
    THEN [ok |-> FALSE, attrs |-> <<>>, pos |-> pos]
    ELSE [ok |-> TRUE, attrs |-> <<>>, pos |-> pos]

(***************************************************************************)
(* parse_request / parse_response: keyword, colon, braced field list.      *)
(***************************************************************************)
parse_request(in, pos, attributes) ==
    IF Peek(in, pos) = "request"
    THEN [ok |-> TRUE,
          val |-> [request_kw |-> pos, attributes |-> attributes, fields |-> pos],
          pos |-> pos + 1]
    ELSE [ok |-> FALSE, val |-> [request_kw |-> 0, attributes |-> <<>>, fields |-> 0],
          pos |-> pos]

parse_response(in, pos, attributes) ==
    IF Peek(in, pos) = "response"
    THEN [ok |-> TRUE,
          val |-> [attributes |-> attributes, fields |-> pos, response_kw |-> pos],
          pos |-> pos + 1]
    ELSE [ok |-> FALSE, val |-> [attributes |-> <<>>, fields |-> 0, response_kw |-> 0],
          pos |-> pos]

\* Variant: every `error` section in a row is consumed, the last one wins.
RECURSIVE ParseErrorTyRepeat(_, _)
ParseErrorTyRepeat(in, pos) ==
    IF Peek(in, pos) = "baderr"
    THEN [ok |-> FALSE, val |-> None, pos |-> pos]
    ELSE IF Peek(in, pos) = "errorT1"
    THEN LET r == ParseErrorTyRepeat(in, pos + 1)
         IN  IF r.ok /\ IsNone(r.val)
             THEN [ok |-> TRUE, val |-> Some(ErrorTypeOf(in[pos])), pos |-> pos + 1]
             ELSE r
    ELSE [ok |-> TRUE, val |-> None, pos |-> pos]

(***************************************************************************)
(* The error section: `error` `:` Type, only when the keyword is next.     *)
(***************************************************************************)
ParseErrorTy(in, pos) ==
    IF PeekError(in, pos)
    THEN IF Peek(in, pos) = "baderr"
         THEN [ok |-> FALSE, val |-> None, pos |-> pos]
         ELSE [ok |-> TRUE, val |-> Some(ErrorTypeOf(in[pos])), pos |-> pos + 1]
    ELSE [ok |-> TRUE, val |-> None, pos |-> pos]

\* Variant: pending attributes are only an error when no `error` keyword follows.
ParseResponseAndErrorLenient(in, metadata, request, attributes, pos) ==
    LET finish(response, p) ==
            LET e == ParseErrorTy(in, p)
            IN  IF ~e.ok
                THEN Err(SyntaxError, e.pos)
                ELSE Ok([metadata |-> metadata, request |-> request,
                         response |-> response, error_ty |-> e.val], e.pos)
    IN  IF PeekResponse(in, pos)
        THEN LET r == parse_response(in, pos, attributes)
             IN  IF ~r.ok THEN Err(SyntaxError, r.pos)
                 ELSE finish(Some(r.val), r.pos)
        ELSE IF attributes # <<>> /\ ~PeekError(in, pos)
        THEN Err(AttributesWithoutResponse, attributes[1])
        ELSE finish(None, pos)

(***************************************************************************)
(* The tail of Api::parse after the request branch: response, then error.  *)
(***************************************************************************)
ParseResponseAndError(in, metadata, request, attributes, pos) ==
    LET finish(response, p) ==
            LET e == ParseErrorTy(in, p)
            IN  IF ~e.ok
                THEN Err(SyntaxError, e.pos)
                ELSE Ok([metadata |-> metadata, request |-> request,
                         response |-> response, error_ty |-> e.val], e.pos)
    IN  IF PeekResponse(in, pos)
        THEN LET r == parse_response(in, pos, attributes)
             IN  IF ~r.ok THEN Err(SyntaxError, r.pos)
                 ELSE finish(Some(r.val), r.pos)
        ELSE IF attributes # <<>>
        THEN Err(AttributesWithoutResponse, attributes[1])
        ELSE finish(None, pos)

\* Variant: the attributes before `request` are kept and handed to the response
\* branch as well.
ApiParseSharedAttrs(in) ==
    LET m == ParseMetadata(in, 1)
    IN  IF ~m.ok THEN Err(SyntaxError, m.pos)
        ELSE
        LET req_attrs == ParseOuter(in, m.pos)
        IN  IF ~req_attrs.ok THEN Err(SyntaxError, req_attrs.pos)
            ELSE IF PeekRequest(in, req_attrs.pos)
            THEN LET request == parse_request(in, req_attrs.pos, req_attrs.attrs)
                 IN  IF ~request.ok THEN Err(SyntaxError, request.pos)
                     ELSE
                     LET after_req_attrs == ParseOuter(in, request.pos)
                     IN  IF ~after_req_attrs.ok
                         THEN Err(SyntaxError, after_req_attrs.pos)
                         ELSE ParseResponseAndError(in, m.metadata, Some(request.val),
                                                    req_attrs.attrs \o after_req_attrs.attrs,
                                                    after_req_attrs.pos)
            ELSE ParseResponseAndError(in, m.metadata, None, req_attrs.attrs,
                                       req_attrs.pos)

(***************************************************************************)
(* Api::parse.                                                             *)
(***************************************************************************)
ApiParse(in) ==
    LET m == ParseMetadata(in, 1)
    IN  IF ~m.ok THEN Err(SyntaxError, m.pos)
        ELSE
        LET req_attrs == ParseOuter(in, m.pos)
        IN  IF ~req_attrs.ok THEN Err(SyntaxError, req_attrs.pos)
            ELSE IF PeekRequest(in, req_attrs.pos)
            THEN LET request == parse_request(in, req_attrs.pos, req_attrs.attrs)
                 IN  IF ~request.ok THEN Err(SyntaxError, request.pos)
                     ELSE
                     LET after_req_attrs == ParseOuter(in, request.pos)
                     IN  IF ~after_req_attrs.ok
                         THEN Err(SyntaxError, after_req_attrs.pos)
                         ELSE ParseResponseAndError(in, m.metadata, Some(request.val),
                                                    after_req_attrs.attrs,
                                                    after_req_attrs.pos)
            ELSE ParseResponseAndError(in, m.metadata, None, req_attrs.attrs,
                                       req_attrs.pos)

(***************************************************************************)
(* The environment of the capability check: whether CARGO_MANIFEST_DIR is  *)
(* set, and the Cargo.toml it names: readable or not, well-formed TOML or  *)
(* not, with or without a [features] table, which declares `client` and    *)
(* `server` or not.  What cannot be observed (the file while the variable  *)
(* is unset, the content of an unreadable file, ...) is normalised to      *)
(* FALSE.                                                                  *)
(***************************************************************************)
Manifests ==
    {m \in [dir_set : BOOLEAN, readable : BOOLEAN, toml_ok : BOOLEAN,
            features : BOOLEAN, client : BOOLEAN, server : BOOLEAN] :
        /\ m.readable => m.dir_set
        /\ m.toml_ok => m.readable
        /\ m.features => m.toml_ok
        /\ (m.client \/ m.server) => m.features}

GoodManifest == [dir_set |-> TRUE, readable |-> TRUE, toml_ok |-> TRUE,
                 features |-> TRUE, client |-> TRUE, server |-> TRUE]

\* The messages of the errors the initialiser of RESULT can produce.
ErrEnv == "Failed to read CARGO_MANIFEST_DIR"
ErrRead == "Failed to read Cargo.toml"
ErrParse == "Failed to parse Cargo.toml"
ErrClient == "This crate does not define a client feature: OutgoingRequest, IncomingResponse"
ErrServer == "This crate does not define a server feature: IncomingRequest, OutgoingResponse"

\* Result<(), syn::Error>
ROk == [is_ok |-> TRUE, err |-> ""]
RErr(msg) == [is_ok |-> FALSE, err |-> msg]

\* env::var("CARGO_MANIFEST_DIR").map_err(..)
EnvVar(e) == IF e.dir_set THEN ROk ELSE RErr(ErrEnv)

\* fs::read(manifest_file): the bytes, or nothing
FsRead(e) ==
    IF e.readable
    THEN Some([toml_ok |-> e.toml_ok, features |-> e.features,
               client |-> e.client, server |-> e.server])
    ELSE None

\* toml::from_slice::<CargoToml>: `features` is a mandatory field of CargoToml,
\* `client` and `server` are optional fields of Features.
FromSlice(bytes) ==
    IF bytes.toml_ok /\ bytes.features
    THEN Some([features |-> [client |-> bytes.client, server |-> bytes.server]])
    ELSE None

\* Variant: `server` is tested before `client`.
CheckFeaturesServerFirst(manifest_parsed) ==
    IF ~manifest_parsed.features.server THEN RErr(ErrServer)
    ELSE IF ~manifest_parsed.features.client THEN RErr(ErrClient)
    ELSE ROk

\* The two is_none() tests, `client` first.
CheckFeatures(manifest_parsed) ==
    IF ~manifest_parsed.features.client THEN RErr(ErrClient)
    ELSE IF ~manifest_parsed.features.server THEN RErr(ErrServer)
    ELSE ROk

\* The initialiser from the point where it holds manifest_bytes.
InitFromBytes(bytes) ==
    LET manifest_parsed == FromSlice(bytes)
    IN  IF IsNone(manifest_parsed) THEN RErr(ErrParse)
        ELSE CheckFeatures(manifest_parsed[1])

\* Variant: a manifest that cannot be read is reported like one that cannot be
\* parsed.
InitResultReadAsFormat(e) ==
    IF ~EnvVar(e).is_ok THEN EnvVar(e)
    ELSE IF IsNone(FsRead(e)) THEN RErr(ErrParse)
    ELSE InitFromBytes(FsRead(e)[1])

\* The initialiser run without interruption against one environment.
InitResult(e) ==
    IF ~EnvVar(e).is_ok THEN EnvVar(e)
    ELSE IF IsNone(FsRead(e)) THEN RErr(ErrRead)
    ELSE InitFromBytes(FsRead(e)[1])

\* RESULT.as_ref().err()
AsRefErr(r) == IF r.is_ok THEN None ELSE Some(r.err)

\* The Lazy cell.
Incomplete == [state |-> "Incomplete", value |-> ROk]
Complete(v) == [state |-> "Complete", value |-> v]

(***************************************************************************)
(* Api::expand_all.  The output TokenStream is the sequence of its parts.  *)
(***************************************************************************)
DefaultErrorTy == "MatrixError"

Part(kind, msg, section, error_ty) ==
    [part |-> kind, msg |-> msg, section |-> section, error_ty |-> error_ty]

\* Variant: the error section is ignored.
ResolveErrorTyDefault(api) == DefaultErrorTy

\* self.error_ty.map_or_else(|| MatrixError, |err_ty| err_ty)
ResolveErrorTy(api) ==
    IF IsSome(api.error_ty) THEN api.error_ty[1] ELSE DefaultErrorTy

\* self.request.map(|req| req.expand(metadata, &error_ty, ..))
ExpandRequest(api, error_ty) ==
    IF IsSome(api.request)
    THEN <<Part("request", "", api.request[1].request_kw, error_ty)>>
    ELSE <<>>

\* Variant: the response delegate is handed the default error type.
ExpandResponseDefaultTy(api, error_ty) ==
    IF IsSome(api.response)
    THEN <<Part("response", "", api.response[1].response_kw, DefaultErrorTy)>>
    ELSE <<>>

\* self.response.map(|res| res.expand(metadata, &error_ty, ..))
ExpandResponse(api, error_ty) ==
    IF IsSome(api.response)
    THEN <<Part("response", "", api.response[1].response_kw, error_ty)>>
    ELSE <<>>

\* Variant: the diagnostic of the capability check is emitted twice.
ExpandMaybeErrorTwice(maybe_error) ==
    IF IsSome(maybe_error)
    THEN <<Part("compile_error", maybe_error[1], 0, ""),
           Part("compile_error", maybe_error[1], 0, "")>>
    ELSE <<>>

\* #maybe_error
ExpandMaybeError(maybe_error) ==
    IF IsSome(maybe_error)
    THEN <<Part("compile_error", maybe_error[1], 0, "")>>
    ELSE <<>>

\* Variant: the response code is emitted before the request code.
ExpandAllSwapped(api, maybe_error) ==
    LET error_ty == ResolveErrorTy(api)
        request == ExpandRequest(api, error_ty)
        response == ExpandResponse(api, error_ty)
    IN  ExpandMaybeError(maybe_error)
        \o <<Part("METADATA", "", api.metadata, "")>>
        \o response
        \o request
        \o <<Part("_SilenceUnusedError", "", 0, error_ty)>>

ExpandAll(api, maybe_error) ==
    LET error_ty == ResolveErrorTy(api)
        request == ExpandRequest(api, error_ty)
        response == ExpandResponse(api, error_ty)
    IN  ExpandMaybeError(maybe_error)
        \o <<Part("METADATA", "", api.metadata, "")>>
        \o request
        \o response
        \o <<Part("_SilenceUnusedError", "", 0, error_ty)>>

(***************************************************************************)
(* The METADATA constant.  A Metadata holds five mandatory fields and six  *)
(* optional ones (three paths, three versions); a literal is the text of   *)
(* its token, and the empty string literal is a literal like any other.    *)
(***************************************************************************)
OptionalFields == {"unstable_path", "r0_path", "stable_path",
                   "added", "deprecated", "removed"}

OptionOf(S) == {None} \cup {Some(x) : x \in S}

PathLiterals == {"", "/foo"}
VersionLiterals == {"1.1"}

Metadatas ==
    [description : {"", "Foo"}, method : {"GET", "POST"}, name : {"foo"},
     unstable_path : OptionOf(PathLiterals), r0_path : OptionOf(PathLiterals),
     stable_path : OptionOf(PathLiterals),
     added : OptionOf(VersionLiterals), deprecated : OptionOf(VersionLiterals),
     removed : OptionOf(VersionLiterals),
     rate_limited : BOOLEAN, authentication : {"None", "AccessToken"}]

\* The tokens of the two markers.
OptionNone == "::std::option::Option::None"
OptionSome == "::std::option::Option::Some"

\* util::map_option_literal: the tokens an Option of a literal is lowered to.
map_option_literal(o) ==
    IF IsSome(o) THEN <<OptionSome, o[1]>> ELSE <<OptionNone>>

\* Variant: r0_path and stable_path are filled from each other's field.
MetadataConstSwapped(metadata) ==
    [description |-> metadata.description,
     method |-> [path |-> "http::Method", ident |-> metadata.method],
     name |-> metadata.name,
     unstable_path |-> map_option_literal(metadata.unstable_path),
     r0_path |-> map_option_literal(metadata.stable_path),
     stable_path |-> map_option_literal(metadata.r0_path),
     added |-> map_option_literal(metadata.added),
     deprecated |-> map_option_literal(metadata.deprecated),
     removed |-> map_option_literal(metadata.removed),
     rate_limited |-> metadata.rate_limited,
     authentication |-> [path |-> "api::AuthScheme", ident |-> metadata.authentication]]

\* pub const METADATA: the struct literal expand_all emits, field by field.
MetadataConst(metadata) ==
    [description |-> metadata.description,
     method |-> [path |-> "http::Method", ident |-> metadata.method],
     name |-> metadata.name,
     unstable_path |-> map_option_literal(metadata.unstable_path),
     r0_path |-> map_option_literal(metadata.r0_path),
     stable_path |-> map_option_literal(metadata.stable_path),
     added |-> map_option_literal(metadata.added),
     deprecated |-> map_option_literal(metadata.deprecated),
     removed |-> map_option_literal(metadata.removed),
     rate_limited |-> metadata.rate_limited,
     authentication |-> [path |-> "api::AuthScheme", ident |-> metadata.authentication]]

\* No Metadata is under construction.
MetaIdle ==
    /\ meta = None
    /\ descriptor = None

(***************************************************************************)
(* One macro invocation: parse the input, then expand the parsed Api.      *)
(***************************************************************************)
Threads == 1..MaxThreads

NotParsed == Err("", 0)

CapIdle ==
    /\ RESULT = Incomplete
    /\ pc = [t \in Threads |-> "idle"]
    /\ local = [t \in Threads |-> None]
    /\ got = [t \in Threads |-> None]
    /\ initCount = 0
    /\ edits = 0

InitApi ==
    /\ input \in Inputs
    /\ phase = "input"
    /\ parsed = NotParsed
    /\ output = <<>>
    /\ MetaIdle
    /\ env = GoodManifest
    /\ CapIdle

Parse ==
    /\ phase = "input"
    /\ parsed' = ApiParse(input)
    /\ phase' = "parsed"
    /\ UNCHANGED <<input, output, metaVars, capVars>>

\* expand_all on the parsed Api; the first statement forces RESULT against the
\* environment the process finds.
Expand ==
    /\ phase = "parsed"
    /\ parsed.ok
    /\ RESULT.state = "Incomplete"
    /\ \E m \in Manifests :
          /\ env' = m
          /\ RESULT' = Complete(InitResult(m))
          /\ output' = ExpandAll(parsed.api[1], AsRefErr(InitResult(m)))
    /\ initCount' = initCount + 1
    /\ phase' = "expanded"
    /\ UNCHANGED <<input, parsed, metaVars, pc, local, got, edits>>

NextApi == Parse \/ Expand

SpecApi == InitApi /\ [][NextApi]_vars

(***************************************************************************)
(* expand_all on an Api with the given Metadata: the METADATA constant.    *)
(***************************************************************************)
InitMeta ==
    /\ input = <<>>
    /\ phase = "metadata"
    /\ parsed = NotParsed
    /\ output = <<>>
    /\ meta \in {Some(m) : m \in Metadatas}
    /\ descriptor = None
    /\ env = GoodManifest
    /\ CapIdle

EmitMetadata ==
    /\ phase = "metadata"
    /\ descriptor' = Some(MetadataConst(meta[1]))
    /\ phase' = "emitted"
    /\ UNCHANGED <<input, parsed, output, meta, capVars>>

NextMeta == EmitMetadata

SpecMeta == InitMeta /\ [][NextMeta]_vars

(***************************************************************************)
(* Concurrent callers of ensure_feature_presence.  Each thread is one      *)
(* endpoint compilation of the process: expand_all calls the function once *)
(* and the call dereferences RESULT, which forces the Lazy cell.  The      *)
(* compilations may overlap or follow one another.                         *)
(*   pc = "idle"        expand_all not yet called                          *)
(*        "done"        ensure_feature_presence has returned               *)
(*        "wait"        blocked while another thread runs the initialiser  *)
(*        "init_env"    in the initialiser, before env::var                *)
(*        "init_read"   in the initialiser, before fs::read                *)
(*        "init_parse"  in the initialiser, holding manifest_bytes         *)
(***************************************************************************)
InitCap ==
    /\ input = <<>>
    /\ phase = "none"
    /\ parsed = NotParsed
    /\ output = <<>>
    /\ MetaIdle
    /\ env \in Manifests
    /\ CapIdle

\* What a call hands back to expand_all, stamped with the number of edits the
\* environment had seen when the call returned and with the way the call got
\* the value: "init" (it ran the initialiser), "wait" (it waited for the
\* initialiser of another caller), "read" (the cell was already Complete).
Returned(t, r, via) ==
    got' = [got EXCEPT ![t] = Some([val |-> AsRefErr(r), at |-> edits, via |-> via])]

\* Variant: the value is written but the cell is never marked Complete.
StoreUnpublished(t, v) ==
    /\ RESULT' = [state |-> "Running", value |-> v]
    /\ Returned(t, v, "init")
    /\ pc' = [pc EXCEPT ![t] = "done"]
    /\ local' = [local EXCEPT ![t] = None]

\* The initialiser ends with value v: the cell becomes Complete and the forcing
\* call returns.
Store(t, v) ==
    /\ RESULT' = Complete(v)
    /\ Returned(t, v, "init")
    /\ pc' = [pc EXCEPT ![t] = "done"]
    /\ local' = [local EXCEPT ![t] = None]

\* Variant: the test of the cell and the claim of it are not atomic, so a caller
\* that finds the cell not Complete runs the initialiser itself.
ForceRacy(t) ==
    /\ pc[t] = "idle"
    /\ \/ /\ RESULT.state = "Complete"
          /\ Returned(t, RESULT.value, "read")
          /\ pc' = [pc EXCEPT ![t] = "done"]
          /\ UNCHANGED <<RESULT, initCount>>
       \/ /\ RESULT.state # "Complete"
          /\ RESULT' = [RESULT EXCEPT !.state = "Running"]
          /\ pc' = [pc EXCEPT ![t] = "init_env"]
          /\ initCount' = initCount + 1
          /\ UNCHANGED got
    /\ UNCHANGED <<apiVars, env, local, edits>>

\* Variant: no memoization, a Complete cell is recomputed from the environment
\* at every call.
ForceNoCache(t) ==
    /\ pc[t] = "idle"
    /\ \/ /\ RESULT.state = "Complete"
          /\ RESULT' = Complete(InitResult(env))
          /\ Returned(t, InitResult(env), "read")
          /\ pc' = [pc EXCEPT ![t] = "done"]
          /\ UNCHANGED initCount
       \/ /\ RESULT.state = "Incomplete"
          /\ RESULT' = [RESULT EXCEPT !.state = "Running"]
          /\ pc' = [pc EXCEPT ![t] = "init_env"]
          /\ initCount' = initCount + 1
          /\ UNCHANGED got
       \/ /\ RESULT.state = "Running"
          /\ pc' = [pc EXCEPT ![t] = "wait"]
          /\ UNCHANGED <<RESULT, got, initCount>>
    /\ UNCHANGED <<apiVars, env, local, edits>>

\* RESULT.as_ref(): Lazy::force.  A Complete cell is read; an Incomplete cell is
\* claimed by this caller, which becomes the one that runs the initialiser; a
\* Running cell makes the caller wait.
Force(t) ==
    /\ pc[t] = "idle"
    /\ \/ /\ RESULT.state = "Complete"
          /\ Returned(t, RESULT.value, "read")
          /\ pc' = [pc EXCEPT ![t] = "done"]
          /\ UNCHANGED <<RESULT, initCount>>
       \/ /\ RESULT.state = "Incomplete"
          /\ RESULT' = [RESULT EXCEPT !.state = "Running"]
          /\ pc' = [pc EXCEPT ![t] = "init_env"]
          /\ initCount' = initCount + 1
          /\ UNCHANGED got
       \/ /\ RESULT.state = "Running"
          /\ pc' = [pc EXCEPT ![t] = "wait"]
          /\ UNCHANGED <<RESULT, got, initCount>>
    /\ UNCHANGED <<apiVars, env, local, edits>>

\* A waiting caller is woken once the cell is Complete and reads it.
Wake(t) ==
    /\ pc[t] = "wait"
    /\ RESULT.state = "Complete"
    /\ Returned(t, RESULT.value, "wait")
    /\ pc' = [pc EXCEPT ![t] = "done"]
    /\ UNCHANGED <<apiVars, env, RESULT, local, initCount, edits>>

\* env::var("CARGO_MANIFEST_DIR")
InitEnvVar(t) ==
    /\ pc[t] = "init_env"
    /\ IF EnvVar(env).is_ok
       THEN /\ pc' = [pc EXCEPT ![t] = "init_read"]
            /\ UNCHANGED <<RESULT, local, got>>
       ELSE Store(t, EnvVar(env))
    /\ UNCHANGED <<apiVars, env, initCount, edits>>

\* fs::read(manifest_file)
InitRead(t) ==
    /\ pc[t] = "init_read"
    /\ IF IsSome(FsRead(env))
       THEN /\ pc' = [pc EXCEPT ![t] = "init_parse"]
            /\ local' = [local EXCEPT ![t] = FsRead(env)]
            /\ UNCHANGED <<RESULT, got>>
       ELSE Store(t, RErr(ErrRead))
    /\ UNCHANGED <<apiVars, env, initCount, edits>>

\* toml::from_slice and the two feature tests, on the bytes already read
InitParse(t) ==
    /\ pc[t] = "init_parse"
    /\ Store(t, InitFromBytes(local[t][1]))
    /\ UNCHANGED <<apiVars, env, initCount, edits>>

\* Somebody edits Cargo.toml or changes CARGO_MANIFEST_DIR while the process runs.
EditManifest ==
    /\ edits < MaxEdits
    /\ \E m \in Manifests : m # env /\ env' = m
    /\ edits' = edits + 1
    /\ UNCHANGED <<apiVars, RESULT, pc, local, got, initCount>>

NextCap ==
    \/ \E t \in Threads : Force(t)
    \/ \E t \in Threads : Wake(t)
    \/ \E t \in Threads : InitEnvVar(t)
    \/ \E t \in Threads : InitRead(t)
    \/ \E t \in Threads : InitParse(t)
    \/ EditManifest

SpecCap == InitCap /\ [][NextCap]_vars

\* Every step a compilation thread can take.  The scheduler runs every thread
\* that can take a step, and a waiter can take one from the moment the cell is
\* Complete, so each thread's steps are weakly fair; nothing obliges anybody to
\* edit the manifest.
ThreadStep(t) ==
    Force(t) \/ Wake(t) \/ InitEnvVar(t) \/ InitRead(t) \/ InitParse(t)

SpecCapFair == SpecCap /\ \A t \in Threads : WF_vars(ThreadStep(t))

(***************************************************************************)
(* Properties of Api::parse and Api::expand_all, under SpecApi.            *)
(***************************************************************************)

\* The number of consecutive well-formed attributes of the input from pos on.
RECURSIVE AttrRun(_, _)
AttrRun(in, pos) == IF Peek(in, pos) = "attr" THEN 1 + AttrRun(in, pos + 1) ELSE 0

\* Shape of the input: metadata, k leading attributes, then position LeadEnd.
HasMetadata == Peek(input, 1) = "md"
LeadEnd == 2 + AttrRun(input, 2)
\* With a request section at LeadEnd: the attributes after it end before AfterEnd.
AfterEnd == LeadEnd + 1 + AttrRun(input, LeadEnd + 1)

\* Non-empty leading attributes, no request section, and the next token is not
\* the response keyword.
DanglingLeading ==
    /\ HasMetadata
    /\ LeadEnd > 2
    /\ Peek(input, LeadEnd) \notin {"badattr", "request", "badreq", "response", "badresp"}

\* A request section, non-empty attributes after it, and the next token is not
\* the response keyword.
DanglingAfterRequest ==
    /\ HasMetadata
    /\ Peek(input, LeadEnd) = "request"
    /\ AfterEnd > LeadEnd + 1
    /\ Peek(input, AfterEnd) \notin {"badattr", "response", "badresp"}

FailsWithAttributesAt(span) ==
    /\ ~parsed.ok
    /\ IsNone(parsed.api)
    /\ parsed.err = AttributesWithoutResponse
    /\ parsed.span = span

\* C1: whenever a non-empty list of attributes is pending for the response branch
\* (the leading attributes without a request section, or the attributes after the
\* request section) and the next token is not the response keyword, Api::parse
\* fails with the attributes error spanned at the first pending attribute, whether
\* or not an error section follows, and yields no Api.
C1_AttributesWithoutResponse ==
    phase # "input" =>
        /\ DanglingLeading => FailsWithAttributesAt(2)
        /\ DanglingAfterRequest => FailsWithAttributesAt(LeadEnd + 1)

C1_Witness ==
    /\ phase = "parsed"
    /\ DanglingAfterRequest
    /\ Peek(input, AfterEnd) = "errorT1"
    /\ FailsWithAttributesAt(LeadEnd + 1)

\* Metadata, (attributes and) a request section, then at once an error section.
RequestThenError ==
    /\ HasMetadata
    /\ Peek(input, LeadEnd) = "request"
    /\ Peek(input, LeadEnd + 1) = "errorT1"

PartsOf(kind) == {i \in 1..Len(output) : output[i].part = kind}

\* C2: metadata, a request section and then immediately an error section parse to
\* request = Some, response = None, error_ty = Some(the given type), and expand_all
\* hands that type, not the default, to the request delegate and to the alias.
C2_RequestThenError ==
    (phase # "input" /\ RequestThenError) =>
        /\ parsed.ok
        /\ IsSome(parsed.api[1].request)
        /\ IsNone(parsed.api[1].response)
        /\ parsed.api[1].error_ty = Some(ErrorTypeOf(input[LeadEnd + 1]))
        /\ phase = "expanded" =>
              /\ PartsOf("request") # {}
              /\ PartsOf("_SilenceUnusedError") # {}
              /\ \A i \in PartsOf("request") \cup PartsOf("_SilenceUnusedError") :
                    output[i].error_ty = ErrorTypeOf(input[LeadEnd + 1])

C2_Witness ==
    /\ phase = "expanded"
    /\ input = <<"md", "request", "errorT1">>
    /\ output[Len(output)].error_ty = "T1"

(***************************************************************************)
(* Properties of ensure_feature_presence under concurrent callers and      *)
(* manifest edits, under SpecCap.                                          *)
(***************************************************************************)
InInitialiser(t) == pc[t] \in {"init_env", "init_read", "init_parse"}

\* The callers whose call has returned, and what it returned.
Returns == {t \in Threads : IsSome(got[t])}
Ret(t) == got[t][1]

\* C3: however the callers interleave, the initialiser of RESULT is entered at
\* most once and by one caller at a time, no call returns before the cell is
\* Complete, exactly one call returns as the one that computed the value, and
\* every call returns the value stored in the cell.
C3_InitialisedOnce ==
    /\ initCount <= 1
    /\ Cardinality({t \in Threads : InInitialiser(t)}) <= 1
    /\ (\E t \in Threads : InInitialiser(t)) => RESULT.state = "Running"
    /\ Returns # {} =>
          /\ RESULT.state = "Complete"
          /\ initCount = 1
          /\ Cardinality({c \in Returns : Ret(c).via = "init"}) = 1
    /\ \A c \in Returns : Ret(c).val = AsRefErr(RESULT.value)

C3_Witness ==
    /\ initCount = 1
    /\ \E t, u \in Returns :
          /\ Ret(t).via = "init"
          /\ Ret(u).via = "wait"
          /\ Ret(u).val = Ret(t).val

\* C4: all calls of one process return the same result, whatever is done to the
\* manifest or to CARGO_MANIFEST_DIR between them.
C4_ResultNeverChanges ==
    \A c, d \in Returns : Ret(c).val = Ret(d).val

\* A failure was returned, the manifest was then fixed, and a later call still
\* returned the failure.
C4_Witness ==
    \E c, d \in Returns :
        /\ Ret(c).at < Ret(d).at
        /\ IsSome(Ret(c).val)
        /\ Ret(d).val = Ret(c).val
        /\ Ret(d).via = "read"
        /\ env = GoodManifest
        /\ InitResult(env) = ROk

(***************************************************************************)
(* Properties of the output of expand_all, under SpecApi.                  *)
(***************************************************************************)
Expanded == phase = "expanded"
CheckFailed == ~RESULT.value.is_ok
Kinds == [i \in 1..Len(output) |-> output[i].part]

\* C5 as stated: when the capability check fails the output is the diagnostic
\* alone, without METADATA, request code, response code or alias.
C5_Original ==
    (Expanded /\ CheckFailed) =>
        /\ Len(output) = 1
        /\ output[1].part = "compile_error"

\* C5 as amended: when the capability check fails the output holds exactly one
\* diagnostic, in first place and carrying the message of the cached error; it
\* does not replace the rest: METADATA, the code of every section the Api has
\* and the alias are emitted after it.
C5_DiagnosticPrepended ==
    (Expanded /\ CheckFailed) =>
        /\ PartsOf("compile_error") = {1}
        /\ output[1].msg = RESULT.value.err
        /\ Cardinality(PartsOf("METADATA")) = 1
        /\ Cardinality(PartsOf("_SilenceUnusedError")) = 1
        /\ Cardinality(PartsOf("request")) =
              (IF IsSome(parsed.api[1].request) THEN 1 ELSE 0)
        /\ Cardinality(PartsOf("response")) =
              (IF IsSome(parsed.api[1].response) THEN 1 ELSE 0)

C5_Witness ==
    /\ Expanded
    /\ CheckFailed
    /\ RESULT.value.err = ErrServer
    /\ Len(output) = 5
    /\ output[1].part = "compile_error"

\* C7: the parts of the output come in the order diagnostic (only when the check
\* failed), METADATA, request code, response code, alias; the request code is
\* there exactly when the Api has a request section and the response code exactly
\* when it has a response section.
C7_EmissionOrder ==
    Expanded =>
        Kinds = (IF ~InitResult(env).is_ok THEN <<"compile_error">> ELSE <<>>)
                \o <<"METADATA">>
                \o (IF IsSome(parsed.api[1].request) THEN <<"request">> ELSE <<>>)
                \o (IF IsSome(parsed.api[1].response) THEN <<"response">> ELSE <<>>)
                \o <<"_SilenceUnusedError">>

\* Scenario B with a passed check: request present, response absent.
C7_Witness ==
    /\ Expanded
    /\ input = <<"md", "request">>
    /\ Kinds = <<"METADATA", "request", "_SilenceUnusedError">>

\* The error section was parsed: the last token consumed is an error section.
ErrorSectionParsed == parsed.rest > 1 /\ PeekError(input, parsed.rest - 1)

\* C8: the resolved error type is the one of the error section when one was
\* parsed and MatrixError otherwise, and that one type reaches the request
\* delegate, the response delegate and the alias.
C8_ResolvedErrorType ==
    Expanded =>
        /\ PartsOf("_SilenceUnusedError") # {}
        /\ \A i \in PartsOf("request") \cup PartsOf("response")
                    \cup PartsOf("_SilenceUnusedError") :
              output[i].error_ty = (IF ErrorSectionParsed
                                    THEN ErrorTypeOf(input[parsed.rest - 1])
                                    ELSE "MatrixError")

\* Both delegates are invoked and no error section was parsed.
C8_Witness ==
    /\ Expanded
    /\ PartsOf("request") # {}
    /\ PartsOf("response") # {}
    /\ ~ErrorSectionParsed
    /\ \A i \in PartsOf("request") \cup PartsOf("response") :
          output[i].error_ty = "MatrixError"

\* C6 as stated: for every readable, well-formed manifest that does not declare
\* `client` or does not declare `server` (a manifest without a features table
\* included), the check fails with the error naming a capability that is missing.
C6_MissingCapabilityNamed ==
    (Expanded /\ env.dir_set /\ env.readable /\ env.toml_ok
        /\ (~env.client \/ ~env.server)) =>
        \/ RESULT.value = RErr(ErrClient) /\ ~env.client
        \/ RESULT.value = RErr(ErrServer) /\ ~env.server

(***************************************************************************)
(* Properties of the section grammar, under SpecApi.                       *)
(***************************************************************************)
Parsed == phase # "input"

\* The tokens Api::parse consumed, and those of them that are sections.
Consumed == SubSeq(input, 1, parsed.rest - 1)
IsSection(tok) == tok # "attr"
ConsumedSections == SelectSeq(Consumed, IsSection)

Opt(b, tok) == IF b THEN <<tok>> ELSE <<>>

\* metadata, then at most one request, response and error, in that order.
SectionOrders ==
    {<<"md">> \o Opt(rq, "request") \o Opt(rs, "response") \o Opt(er, "errorT1") :
        rq \in BOOLEAN, rs \in BOOLEAN, er \in BOOLEAN}

\* C9: a parse succeeds only on metadata followed by at most one request, at most
\* one response and at most one error section in that order; without metadata
\* it fails; the sections of the resulting Api are exactly the sections consumed,
\* so a repeated or misplaced section is never part of the Api.
C9_SectionOrder ==
    Parsed =>
        /\ ~HasMetadata => ~parsed.ok
        /\ parsed.ok =>
              /\ ConsumedSections \in SectionOrders
              /\ parsed.api[1].metadata = 1
              /\ ConsumedSections =
                    <<"md">> \o Opt(IsSome(parsed.api[1].request), "request")
                             \o Opt(IsSome(parsed.api[1].response), "response")
                             \o Opt(IsSome(parsed.api[1].error_ty), "errorT1")
              /\ IsSome(parsed.api[1].request) =>
                    input[parsed.api[1].request[1].request_kw] = "request"
              /\ IsSome(parsed.api[1].response) =>
                    input[parsed.api[1].response[1].response_kw] = "response"

\* A response section before a request section: the request is not consumed.
C9_Witness ==
    /\ phase = "parsed"
    /\ input = <<"md", "response", "request", "errorT1">>
    /\ parsed.ok
    /\ parsed.rest = 3
    /\ IsNone(parsed.api[1].request)
    /\ IsNone(parsed.api[1].error_ty)

Range(seq) == {seq[i] : i \in 1..Len(seq)}
IsAscending(seq) == \A i, j \in 1..Len(seq) : i < j => seq[i] < seq[j]

RequestAttrs == IF IsSome(parsed.api[1].request)
                THEN parsed.api[1].request[1].attributes ELSE <<>>
ResponseAttrs == IF IsSome(parsed.api[1].response)
                 THEN parsed.api[1].response[1].attributes ELSE <<>>

\* Every token from the attribute at position i up to the keyword at kw is an
\* attribute: i belongs to the run that directly precedes the keyword.
DirectlyBefore(i, kw) == i < kw /\ \A j \in i..kw - 1 : input[j] = "attr"

\* C10: in a successful parse every consumed attribute is attached once, to the
\* section it directly precedes: the request or, for the attributes after the
\* request section and for leading attributes without a request section, the
\* response.
C10_AttributesAttached ==
    (Parsed /\ parsed.ok) =>
        /\ IsAscending(RequestAttrs)
        /\ IsAscending(ResponseAttrs)
        /\ Range(RequestAttrs) \cap Range(ResponseAttrs) = {}
        /\ Range(RequestAttrs) \cup Range(ResponseAttrs)
              = {i \in 1..parsed.rest - 1 : input[i] = "attr"}
        /\ \A i \in Range(RequestAttrs) :
              DirectlyBefore(i, parsed.api[1].request[1].request_kw)
        /\ \A i \in Range(ResponseAttrs) :
              DirectlyBefore(i, parsed.api[1].response[1].response_kw)

C10_Witness ==
    /\ phase = "parsed"
    /\ input = <<"md", "attr", "request", "attr", "response">>
    /\ parsed.ok
    /\ RequestAttrs = <<2>>
    /\ ResponseAttrs = <<4>>

(***************************************************************************)
(* Properties of the result of the capability check, under SpecApi: env is *)
(* the environment the initialiser ran against.                            *)
(***************************************************************************)
IOErrors == {ErrEnv, ErrRead}
FormatErrors == {ErrParse}
MissingCapabilityErrors == {ErrClient, ErrServer}

\* The manifest bytes were read and deserialise into CargoToml.
ManifestParses == env.readable /\ env.toml_ok /\ env.features

\* C12: the error of the capability check tells the step that failed: an unset
\* CARGO_MANIFEST_DIR or an unreadable manifest gives an I/O error, bytes that
\* were read but do not parse into the expected structure give the format
\* error, and a missing-capability error is given only after reading and
\* parsing both succeeded.
C12_FailureClassification ==
    Expanded =>
        /\ (~env.dir_set \/ ~env.readable) =>
              (CheckFailed /\ RESULT.value.err \in IOErrors)
        /\ ~env.dir_set => RESULT.value.err = ErrEnv
        /\ (env.dir_set /\ ~env.readable) => RESULT.value.err = ErrRead
        /\ (env.readable /\ ~ManifestParses) =>
              (CheckFailed /\ RESULT.value.err \in FormatErrors)
        /\ (CheckFailed /\ RESULT.value.err \in MissingCapabilityErrors) =>
              (env.dir_set /\ ManifestParses)

\* An unreadable manifest gave the I/O error, in the output as the diagnostic.
C12_Witness ==
    /\ Expanded
    /\ env.dir_set
    /\ ~env.readable
    /\ RESULT.value = RErr(ErrRead)
    /\ output[1].msg = ErrRead

Done(t) == pc[t] = "done"

\* A waiting caller is never stuck: the cell is Complete or a caller is inside
\* the initialiser and can take its next step.
NobodyStuck ==
    (\E t \in Threads : pc[t] = "wait") =>
        \/ RESULT.state = "Complete"
        \/ \E u \in Threads : InInitialiser(u)

\* C13: under fair scheduling every compilation's call of the capability check
\* returns, so every expand_all goes on to produce its output; no caller waits
\* forever for another caller's initialisation and the callers are never all
\* blocked.
C13_EveryCompilationCompletes ==
    /\ \A t \in Threads : <>Done(t)
    /\ [](NobodyStuck /\ ((\E t \in Threads : ~Done(t)) => ENABLED (\E u \in Threads : ThreadStep(u))))

\* Every compilation has completed and one of them had to wait for another.
C13_Witness ==
    /\ \A t \in Threads : Done(t) /\ IsSome(got[t])
    /\ \E t \in Threads : Ret(t).via = "wait"

(***************************************************************************)
(* Properties of the METADATA constant, under SpecMeta.                    *)
(***************************************************************************)
Emitted == phase = "emitted"

MandatoryCarried ==
    /\ descriptor[1].description = meta[1].description
    /\ descriptor[1].name = meta[1].name
    /\ descriptor[1].rate_limited = meta[1].rate_limited
    /\ descriptor[1].method.ident = meta[1].method
    /\ descriptor[1].authentication.ident = meta[1].authentication

\* C11: in the emitted METADATA each of the six optional fields is the absent
\* marker when the field was omitted and the present marker around exactly the
\* given literal when it was given, never a bare (empty or zero) literal; the
\* mandatory fields carry the given values.
C11_MetadataLowering ==
    Emitted =>
        /\ \A f \in OptionalFields :
              /\ IsNone(meta[1][f]) => descriptor[1][f] = <<OptionNone>>
              /\ IsSome(meta[1][f]) => descriptor[1][f] = <<OptionSome, meta[1][f][1]>>
              /\ IsNone(meta[1][f]) =>
                    descriptor[1][f] \notin {<<"">>, <<"0">>, <<OptionSome, "">>,
                                             <<OptionSome, "0">>}
        /\ MandatoryCarried

\* An omitted path next to an empty one and a given one: three different lowerings.
C11_Witness ==
    /\ Emitted
    /\ meta[1].unstable_path = None
    /\ meta[1].r0_path = Some("")
    /\ meta[1].stable_path = Some("/foo")
    /\ meta[1].added = None
    /\ descriptor[1].unstable_path = <<OptionNone>>
    /\ descriptor[1].r0_path = <<OptionSome, "">>
    /\ descriptor[1].stable_path = <<OptionSome, "/foo">>
    /\ descriptor[1].added = <<OptionNone>>

====
